---------------------------- MODULE Spec2Model ----------------------------
(***************************************************************************)
(* A model of Challenge_1b/process_documents.py: PersonaDocumentAnalyzer.  *)
(*                                                                         *)
(* Text is modelled as it is in Python: a string is a sequence of          *)
(* one-character strings, so that strip, lower, split, the regular         *)
(* expressions and the substring tests are computed character by           *)
(* character.  A relevance score is the exact rational value of the        *)
(* Python expression, held as an integer number of 1/Scale points.         *)
(***************************************************************************)
EXTENDS Integers, Sequences, FiniteSets, TLC

----------------------------------------------------------------------------
(* Characters *)

UpperLetters == <<"A","B","C","D","E","F","G","H","I","J","K","L","M",
                  "N","O","P","Q","R","S","T","U","V","W","X","Y","Z">>
LowerLetters == <<"a","b","c","d","e","f","g","h","i","j","k","l","m",
                  "n","o","p","q","r","s","t","u","v","w","x","y","z">>
UpperSet == {UpperLetters[i] : i \in DOMAIN UpperLetters}
LowerSet == {LowerLetters[i] : i \in DOMAIN LowerLetters}
Digits == {"0","1","2","3","4","5","6","7","8","9"}
Letters == UpperSet \cup LowerSet

\* [A-Z] and [a-z] under re.IGNORECASE
IsLetter(c) == c \in Letters
\* \d
IsDigit(c) == c \in Digits
\* \s, and the characters str.strip() and str.split() treat as blank
IsSpace(c) == c \in {" ", "\t", "\n", "\r"}
\* \w
IsWordChar(c) == c \in Letters \cup Digits \cup {"_"}
\* [.!?]
IsSentenceEnd(c) == c \in {".", "!", "?"}

\* str.lower() on one character
LowerChar(c) ==
    IF c \in UpperSet
    THEN LowerLetters[CHOOSE i \in DOMAIN UpperLetters : UpperLetters[i] = c]
    ELSE c

----------------------------------------------------------------------------
(* Strings *)

\* The sequence f as a stored list.  list(f) = f; TLC keeps the elements of
\* list(f) instead of computing f[i] anew at each use.
list(f) == f \o << >>

\* str.lower()
lower(s) == list([i \in 1..Len(s) |-> LowerChar(s[i])])

\* str.strip()
strip(s) ==
    LET keep == {i \in 1..Len(s) : ~IsSpace(s[i])}
    IN  IF keep = {} THEN << >>
        ELSE LET lo == CHOOSE i \in keep : \A j \in 1..(i - 1) : IsSpace(s[j])
                 hi == CHOOSE i \in keep : \A j \in (i + 1)..Len(s) : IsSpace(s[j])
             IN  SubSeq(s, lo, hi)

\* s[:n]
prefix(s, n) == SubSeq(s, 1, IF Len(s) < n THEN Len(s) ELSE n)

\* s.startswith(k)
startswith(s, k) ==
    /\ Len(k) <= Len(s)
    /\ \A i \in 1..Len(k) : s[i] = k[i]

\* k in s  (substring test)
contains(s, k) ==
    \E i \in 0..(Len(s) - Len(k)) : \A j \in 1..Len(k) : s[i + j] = k[j]

\* the elements of set S of integers that lie in lo..hi, in ascending order
RECURSIVE InOrder(_, _, _)
InOrder(S, lo, hi) ==
    IF lo > hi THEN << >>
    ELSE IF lo = hi THEN (IF lo \in S THEN <<lo>> ELSE << >>)
    ELSE LET mid == (lo + hi) \div 2
         IN  InOrder(S, lo, mid) \o InOrder(S, mid + 1, hi)

\* the elements of set S of integers in ascending order
Ascending(S) ==
    IF S = {} THEN << >>
    ELSE InOrder(S, CHOOSE x \in S : \A y \in S : x <= y,
                    CHOOSE x \in S : \A y \in S : x >= y)

\* membership of character c in a character class of the source's patterns
InClass(c, class) ==
    CASE class = "word"         -> IsWordChar(c)
      [] class = "nonspace"     -> ~IsSpace(c)
      [] class = "sentence_end" -> IsSentenceEnd(c)
      [] class = "letter"       -> IsLetter(c)
      [] class = "digit"        -> IsDigit(c)
      [] class = "space"        -> IsSpace(c)

\* the maximal runs of characters of a class, as <<first, last>> pairs in text
\* order
Runs(s, class) ==
    LET n      == Len(s)
        in     == list([i \in 1..n |-> InClass(s[i], class)])
        starts == {i \in 1..n : in[i] /\ (i = 1 \/ ~in[i-1])}
        ends   == {i \in 1..n : in[i] /\ (i = n \/ ~in[i+1])}
        a      == Ascending(starts)
        b      == Ascending(ends)
    IN  list([k \in 1..Len(a) |-> <<a[k], b[k]>>])

\* set(re.findall(r'\b\w+\b', s)): the maximal runs of word characters
words(s) ==
    LET r == Runs(s, "word")
    IN  {SubSeq(s, r[k][1], r[k][2]) : k \in DOMAIN r}

\* len(s.split())
word_count(s) == Len(Runs(s, "nonspace"))

\* re.split(r'[.!?]+', s): the pieces between the maximal runs of sentence
\* ends; a run at either end of s leaves an empty piece there
split_sentences(s) ==
    LET r == Runs(s, "sentence_end")
        m == Len(r)
    IN  list([k \in 1..(m + 1) |->
                SubSeq(s, IF k = 1 THEN 1 ELSE r[k-1][2] + 1,
                          IF k = m + 1 THEN Len(s) ELSE r[k][1] - 1)])

\* sep.join(parts)
RECURSIVE join(_, _)
join(sep, parts) ==
    IF parts = << >> THEN << >>
    ELSE IF Len(parts) = 1 THEN parts[1]
    ELSE parts[1] \o sep \o join(sep, Tail(parts))

\* seq[:n]
take(seq, n) == SubSeq(seq, 1, IF Len(seq) < n THEN Len(seq) ELSE n)

\* the concatenation of a sequence of sequences
RECURSIVE concat(_)
concat(seqs) ==
    IF seqs = << >> THEN << >> ELSE Head(seqs) \o concat(Tail(seqs))

----------------------------------------------------------------------------
(* Program constants *)

\* is_section_header: len(text) < 200 and len(text) > 5
HeaderMaxLen == 200
HeaderMinLen == 5
\* second header pattern: {5,50}
AllCapsMinLen == 5
AllCapsMaxLen == 50
\* identify_sections: text[:100] + "..."
TitleMaxLen == 100
\* extract_document_text: len(paragraph) > 50
MinParagraphLen == 50
\* calculate_relevance_score: the weights, the length threshold and the cap
JobWeight == 40
PersonaWeight == 30
ContextPoints == 5
LengthThreshold == 100
LengthBonusMax == 10
ScoreCap == 100
\* extract_subsections: sentences per passage, minimum passage length, top 10
subsection_size == 4
MinSubsectionLen == 50
MaxSubsections == 10
\* process_document_collection: top 20 sections, passages of the top 10, 3 each
TopSections == 20
TopSubsectionRank == 10
SubsectionsPerSection == 3

\* One score point is Scale units.  Every quotient of
\* calculate_relevance_score is exact in these units for a job description of
\* up to 8 distinct words: Scale * 40 is a multiple of 1..8, Scale * 30 of the
\* 9 and 10 keywords of a persona type, and Scale of 100.
Scale == 4200

----------------------------------------------------------------------------
(* Keyword tables *)

\* self.persona_keywords: the focus keywords of each persona type
persona_keywords ==
  [
    researcher |->
    << <<"m","e","t","h","o","d","o","l","o","g","y">>,
       <<"r","e","s","u","l","t","s">>,
       <<"a","n","a","l","y","s","i","s">>,
       <<"e","x","p","e","r","i","m","e","n","t">>,
       <<"d","a","t","a">>,
       <<"s","t","u","d","y">>,
       <<"r","e","s","e","a","r","c","h">>,
       <<"f","i","n","d","i","n","g","s">>,
       <<"h","y","p","o","t","h","e","s","i","s">>,
       <<"l","i","t","e","r","a","t","u","r","e">> >>,
    student |->
    << <<"d","e","f","i","n","i","t","i","o","n">>,
       <<"e","x","a","m","p","l","e">>,
       <<"c","o","n","c","e","p","t">>,
       <<"t","h","e","o","r","y">>,
       <<"p","r","i","n","c","i","p","l","e">>,
       <<"b","a","s","i","c","s">>,
       <<"f","u","n","d","a","m","e","n","t","a","l","s">>,
       <<"e","x","p","l","a","n","a","t","i","o","n">>,
       <<"o","v","e","r","v","i","e","w">>,
       <<"s","u","m","m","a","r","y">> >>,
    analyst |->
    << <<"t","r","e","n","d">>,
       <<"p","e","r","f","o","r","m","a","n","c","e">>,
       <<"m","e","t","r","i","c">>,
       <<"r","e","v","e","n","u","e">>,
       <<"g","r","o","w","t","h">>,
       <<"m","a","r","k","e","t">>,
       <<"f","i","n","a","n","c","i","a","l">>,
       <<"i","n","v","e","s","t","m","e","n","t">>,
       <<"r","i","s","k">>,
       <<"r","e","t","u","r","n">> >>,
    manager |->
    << <<"s","t","r","a","t","e","g","y">>,
       <<"i","m","p","l","e","m","e","n","t","a","t","i","o","n">>,
       <<"t","e","a","m">>,
       <<"p","r","o","j","e","c","t">>,
       <<"p","l","a","n","n","i","n","g">>,
       <<"e","x","e","c","u","t","i","o","n">>,
       <<"l","e","a","d","e","r","s","h","i","p">>,
       <<"m","a","n","a","g","e","m","e","n","t">>,
       <<"o","b","j","e","c","t","i","v","e","s">>,
       <<"g","o","a","l","s">> >>,
    developer |->
    << <<"c","o","d","e">>,
       <<"i","m","p","l","e","m","e","n","t","a","t","i","o","n">>,
       <<"a","l","g","o","r","i","t","h","m">>,
       <<"t","e","c","h","n","i","c","a","l">>,
       <<"s","y","s","t","e","m">>,
       <<"a","r","c","h","i","t","e","c","t","u","r","e">>,
       <<"f","r","a","m","e","w","o","r","k">>,
       <<"a","p","i">>,
       <<"d","a","t","a","b","a","s","e">>,
       <<"o","p","t","i","m","i","z","a","t","i","o","n">> >>,
    consultant |->
    << <<"r","e","c","o","m","m","e","n","d","a","t","i","o","n">>,
       <<"s","o","l","u","t","i","o","n">>,
       <<"b","e","s","t"," ","p","r","a","c","t","i","c","e">>,
       <<"a","s","s","e","s","s","m","e","n","t">>,
       <<"e","v","a","l","u","a","t","i","o","n">>,
       <<"i","m","p","r","o","v","e","m","e","n","t">>,
       <<"p","r","o","c","e","s","s">>,
       <<"e","f","f","i","c","i","e","n","c","y">>,
       <<"o","p","t","i","m","i","z","a","t","i","o","n">> >>
  ]

\* self.academic_keywords
academic_keywords ==
    << <<"a","b","s","t","r","a","c","t">>,
       <<"i","n","t","r","o","d","u","c","t","i","o","n">>,
       <<"m","e","t","h","o","d","o","l","o","g","y">>,
       <<"r","e","s","u","l","t","s">>,
       <<"d","i","s","c","u","s","s","i","o","n">>,
       <<"c","o","n","c","l","u","s","i","o","n">>,
       <<"r","e","f","e","r","e","n","c","e","s">>,
       <<"l","i","t","e","r","a","t","u","r","e"," ","r","e","v","i","e","w">> >>

\* self.business_keywords
business_keywords ==
    << <<"e","x","e","c","u","t","i","v","e"," ","s","u","m","m","a","r","y">>,
       <<"f","i","n","a","n","c","i","a","l">>,
       <<"r","e","v","e","n","u","e">>,
       <<"p","r","o","f","i","t">>,
       <<"m","a","r","k","e","t">>,
       <<"s","t","r","a","t","e","g","y">>,
       <<"c","o","m","p","e","t","i","t","i","v","e">>,
       <<"a","n","a","l","y","s","i","s">> >>

\* persona_mappings of identify_persona_type
persona_mappings ==
  [
    researcher |->
    << <<"r","e","s","e","a","r","c","h","e","r">>,
       <<"s","c","i","e","n","t","i","s","t">>,
       <<"p","h","d">>,
       <<"a","c","a","d","e","m","i","c">> >>,
    student |->
    << <<"s","t","u","d","e","n","t">>,
       <<"u","n","d","e","r","g","r","a","d","u","a","t","e">>,
       <<"g","r","a","d","u","a","t","e">>,
       <<"l","e","a","r","n","e","r">> >>,
    analyst |->
    << <<"a","n","a","l","y","s","t">>,
       <<"i","n","v","e","s","t","m","e","n","t">>,
       <<"f","i","n","a","n","c","i","a","l">>,
       <<"b","u","s","i","n","e","s","s"," ","a","n","a","l","y","s","t">> >>,
    manager |->
    << <<"m","a","n","a","g","e","r">>,
       <<"d","i","r","e","c","t","o","r">>,
       <<"e","x","e","c","u","t","i","v","e">>,
       <<"l","e","a","d","e","r">> >>,
    developer |->
    << <<"d","e","v","e","l","o","p","e","r">>,
       <<"e","n","g","i","n","e","e","r">>,
       <<"p","r","o","g","r","a","m","m","e","r">>,
       <<"t","e","c","h","n","i","c","a","l">> >>,
    consultant |->
    << <<"c","o","n","s","u","l","t","a","n","t">>,
       <<"a","d","v","i","s","o","r">>,
       <<"s","p","e","c","i","a","l","i","s","t">> >>
  ]

\* the job-description words that switch on the academic bonus
academic_triggers ==
    << <<"r","e","s","e","a","r","c","h">>,
       <<"s","t","u","d","y">>,
       <<"a","c","a","d","e","m","i","c">>,
       <<"p","a","p","e","r">> >>

\* the job-description words that switch on the business bonus
business_triggers ==
    << <<"b","u","s","i","n","e","s","s">>,
       <<"f","i","n","a","n","c","i","a","l">>,
       <<"m","a","r","k","e","t">>,
       <<"r","e","v","e","n","u","e">> >>

\* third header pattern, lower-cased: the match ignores case
header_keywords ==
    << <<"a","b","s","t","r","a","c","t">>,
       <<"i","n","t","r","o","d","u","c","t","i","o","n">>,
       <<"m","e","t","h","o","d","o","l","o","g","y">>,
       <<"r","e","s","u","l","t","s">>,
       <<"d","i","s","c","u","s","s","i","o","n">>,
       <<"c","o","n","c","l","u","s","i","o","n">>,
       <<"r","e","f","e","r","e","n","c","e","s">> >>

\* fourth header pattern, lower-cased: the match ignores case
header_units ==
    << <<"c","h","a","p","t","e","r">>,
       <<"s","e","c","t","i","o","n">>,
       <<"p","a","r","t">> >>
\* the iteration order of persona_mappings.items()
persona_order ==
    <<"researcher", "student", "analyst", "manager", "developer", "consultant">>

----------------------------------------------------------------------------
(* is_section_header *)

\* the number of consecutive characters of a class in s from index i on
span(s, i, class) ==
    LET stop == {j \in i..Len(s) : ~InClass(s[j], class)}
    IN  IF stop = {} THEN Len(s) - i + 1
        ELSE (CHOOSE j \in stop : \A k \in stop : j <= k) - i

\* ^\d+\.?\s+[A-Z]
matches_numbered(t) ==
    LET d == span(t, 1, "digit")
        p == IF d + 1 <= Len(t) /\ t[d + 1] = "." THEN d + 2 ELSE d + 1
        w == span(t, p, "space")
    IN  /\ d >= 1
        /\ w >= 1
        /\ p + w <= Len(t)
        /\ IsLetter(t[p + w])

\* ^[A-Z\s]{5,50}$
matches_all_caps(t) ==
    /\ Len(t) >= AllCapsMinLen
    /\ Len(t) <= AllCapsMaxLen
    /\ \A i \in 1..Len(t) : IsLetter(t[i]) \/ IsSpace(t[i])

\* ^(Abstract|Introduction|Methodology|Results|Discussion|Conclusion|References)
matches_keyword(t) ==
    \E k \in DOMAIN header_keywords : startswith(lower(t), header_keywords[k])

\* ^(Chapter|Section|Part)\s+\d+
matches_unit(t) ==
    \E k \in DOMAIN header_units :
        LET u == header_units[k]
            w == span(t, Len(u) + 1, "space")
        IN  /\ startswith(lower(t), u)
            /\ w >= 1
            /\ Len(u) + w + 1 <= Len(t)
            /\ IsDigit(t[Len(u) + w + 1])

\* ^[A-Z][a-z]+(?:\s+[A-Z][a-z]+)*\s*$
matches_title_case(t) ==
    LET r == Runs(t, "letter")
    IN  /\ Len(t) >= 1
        /\ IsLetter(t[1])
        /\ \A i \in 1..Len(t) : IsLetter(t[i]) \/ IsSpace(t[i])
        /\ \A k \in DOMAIN r : r[k][2] - r[k][1] + 1 >= 2

is_section_header(text) ==
    LET t == strip(text)
    IN  /\ Len(t) < HeaderMaxLen
        /\ Len(t) > HeaderMinLen
        /\ \/ matches_numbered(t)
           \/ matches_all_caps(t)
           \/ matches_keyword(t)
           \/ matches_unit(t)
           \/ matches_title_case(t)

----------------------------------------------------------------------------
(* calculate_relevance_score *)

identify_persona_type(persona) ==
    LET hit == {i \in DOMAIN persona_order :
                   \E k \in DOMAIN persona_mappings[persona_order[i]] :
                       contains(persona, persona_mappings[persona_order[i]][k])}
    IN  IF hit = {} THEN "general"
        ELSE persona_order[CHOOSE i \in hit : \A j \in hit : i <= j]

\* sum(1 for word in keywords if word in text)
matches(keywords, text) ==
    Cardinality({k \in DOMAIN keywords : contains(text, keywords[k])})

\* any(keyword in job for keyword in triggers)
any_in(triggers, job) ==
    \E k \in DOMAIN triggers : contains(job, triggers[k])

Min(a, b) == IF a < b THEN a ELSE b

\* the job-keyword overlap, in Scale units
keyword_points(text_lower, job_lower) ==
    LET job_words    == words(job_lower)
        text_words   == words(text_lower)
        common_words == job_words \cap text_words
    IN  IF job_words # {}
        THEN (Cardinality(common_words) * JobWeight * Scale) \div Cardinality(job_words)
        ELSE 0

\* the persona-keyword coverage, in Scale units
persona_points(text_lower, persona_lower) ==
    LET persona_type == identify_persona_type(persona_lower)
    IN  IF persona_type \in DOMAIN persona_keywords
        THEN LET persona_words == persona_keywords[persona_type]
             IN  IF persona_words # << >>
                 THEN (matches(persona_words, text_lower) * PersonaWeight * Scale)
                          \div Len(persona_words)
                 ELSE 0
        ELSE 0

\* the academic and the business bonus, in Scale units
context_points(text_lower, job_lower) ==
    (IF any_in(academic_triggers, job_lower)
     THEN matches(academic_keywords, text_lower) * ContextPoints * Scale ELSE 0)
    +
    (IF any_in(business_triggers, job_lower)
     THEN matches(business_keywords, text_lower) * ContextPoints * Scale ELSE 0)

\* the length bonus, in Scale units
length_points(text) ==
    LET n == word_count(text)
    IN  IF n > LengthThreshold
        THEN Min((n * Scale) \div LengthThreshold, LengthBonusMax * Scale)
        ELSE 0

\* the sum of the factors before the cap, in Scale units
raw_score(text, persona, job_description) ==
    LET text_lower == lower(text)
    IN  keyword_points(text_lower, lower(job_description))
          + persona_points(text_lower, lower(persona))
          + context_points(text_lower, lower(job_description))
          + length_points(text)

\* a variant of cap_score that returns the sum as it is
cap_score_uncapped(score) == score

\* return min(score, 100)
cap_score(score) == Min(score, ScoreCap * Scale)

calculate_relevance_score(text, persona, job_description) ==
    cap_score(raw_score(text, persona, job_description))

----------------------------------------------------------------------------
(* extract_document_text *)

\* A document file is a sequence of pages and a page the sequence of raw
\* paragraphs text.split('\n\n') yields.  The items of one page: the
\* paragraphs that are not blank are numbered from 0 and those of more than
\* 50 characters are kept.
page_items(name, page_num, raw_paragraphs) ==
    LET nonblank   == {i \in DOMAIN raw_paragraphs : strip(raw_paragraphs[i]) # << >>}
        order      == Ascending(nonblank)
        paragraphs == list([k \in DOMAIN order |-> strip(raw_paragraphs[order[k]])])
        long       == Ascending({k \in DOMAIN paragraphs :
                                    Len(paragraphs[k]) > MinParagraphLen})
    IN  list([n \in DOMAIN long |->
                [document   |-> name,
                 page       |-> page_num,
                 section_id |-> <<page_num, long[n] - 1>>,
                 text       |-> paragraphs[long[n]],
                 word_count |-> word_count(paragraphs[long[n]])]])

extract_document_text(name, pages) ==
    concat([p \in DOMAIN pages |-> page_items(name, p, pages[p])])

----------------------------------------------------------------------------
(* identify_sections *)

\* str(n) for n >= 0
RECURSIVE decimal(_)
decimal(n) ==
    LET digit == <<"0","1","2","3","4","5","6","7","8","9">>[(n % 10) + 1]
    IN  IF n < 10 THEN <<digit>> ELSE decimal(n \div 10) \o <<digit>>

\* text[:100] + "..." if len(text) > 100 else text
header_title(text) ==
    IF Len(text) > TitleMaxLen
    THEN prefix(text, TitleMaxLen) \o <<".", ".", ".">>
    ELSE text

\* f"Section starting at page {page}"
fallback_title(page) ==
    <<"S","e","c","t","i","o","n"," ","s","t","a","r","t","i","n","g"," ",
      "a","t"," ","p","a","g","e"," ">> \o decimal(page)

new_section(item, title) ==
    [document        |-> item.document,
     page            |-> item.page,
     section_title   |-> title,
     content         |-> <<item>>,
     importance_rank |-> 0]

\* a variant of section_step that opens the section of a header without
\* saving the section that was open
section_step_unsaved(sections, current, item) ==
    IF is_section_header(item.text)
    THEN <<sections, <<new_section(item, header_title(item.text))>>>>
    ELSE IF current # << >>
         THEN <<sections,
                <<[current[1] EXCEPT !.content = Append(@, item)]>>>>
         ELSE <<sections, <<new_section(item, fallback_title(item.page))>>>>

\* a variant of section_step that also closes the open section when the
\* document or the page changes
section_step_page_break(sections, current, item) ==
    IF is_section_header(item.text)
    THEN <<sections \o current, <<new_section(item, header_title(item.text))>>>>
    ELSE IF current # << >> /\ current[1].document = item.document
                           /\ current[1].page = item.page
         THEN <<sections,
                <<[current[1] EXCEPT !.content = Append(@, item)]>>>>
         ELSE <<sections \o current,
                <<new_section(item, fallback_title(item.page))>>>>

\* One turn of the loop over document_data.  current is the open section as
\* a sequence of length 0 (None) or 1.  The result is <<sections, current>>.
section_step(sections, current, item) ==
    IF is_section_header(item.text)
    THEN <<sections \o current, <<new_section(item, header_title(item.text))>>>>
    ELSE IF current # << >>
         THEN <<sections,
                <<[current[1] EXCEPT !.content = Append(@, item)]>>>>
         ELSE <<sections, <<new_section(item, fallback_title(item.page))>>>>

RECURSIVE section_loop(_, _, _)
section_loop(sections, current, document_data) ==
    IF document_data = << >>
    THEN sections \o current
    ELSE LET next == section_step(sections, current, Head(document_data))
         IN  section_loop(next[1], next[2], Tail(document_data))

identify_sections(document_data) == section_loop(<< >>, << >>, document_data)

----------------------------------------------------------------------------
(* list.sort(key=lambda x: x['relevance_score'], reverse=True) *)

\* a variant of sorts_before that places the later of two equal scores first,
\* as sorting ascending and reversing would
sorts_before_reversed(scores, j, i) ==
    \/ scores[j] > scores[i]
    \/ scores[j] = scores[i] /\ j > i

\* whether the element at index j is placed before the element at index i:
\* a higher score first and, the sort being stable, equal scores in their
\* original order
sorts_before(scores, j, i) ==
    \/ scores[j] > scores[i]
    \/ scores[j] = scores[i] /\ j < i

sort_by_score(seq) ==
    LET scores == list([i \in DOMAIN seq |-> seq[i].relevance_score])
        place  == list([i \in DOMAIN seq |->
                      1 + Cardinality({j \in DOMAIN seq : sorts_before(scores, j, i)})])
    IN  list([k \in DOMAIN seq |-> seq[CHOOSE i \in DOMAIN seq : place[i] = k]])

----------------------------------------------------------------------------
(* rank_sections *)

\* ' '.join([item['text'] for item in section['content']])
section_text(section) ==
    join(<<" ">>, [i \in DOMAIN section.content |-> section.content[i].text])

\* section['relevance_score'] = ...
with_score(section, persona, job_description) ==
    [document        |-> section.document,
     page            |-> section.page,
     section_title   |-> section.section_title,
     content         |-> section.content,
     importance_rank |-> section.importance_rank,
     relevance_score |->
         calculate_relevance_score(section_text(section), persona, job_description)]

\* a variant of assigned_rank that numbers the sections from 0
assigned_rank_from_zero(i) == i - 1

\* section['importance_rank'] = i + 1, for the 1-based position i
assigned_rank(i) == i

rank_sections(sections, persona, job_description) ==
    LET scored == list([i \in DOMAIN sections |->
                      with_score(sections[i], persona, job_description)])
        sorted == sort_by_score(scored)
    IN  list([i \in DOMAIN sorted |->
                [sorted[i] EXCEPT !.importance_rank = assigned_rank(i)]])

----------------------------------------------------------------------------
(* extract_subsections *)

\* '. '.join(s.strip() for s in subsection_sentences if s.strip()) for the
\* k-th group of subsection_size sentences (k from 1)
subsection_text(sentences, k) ==
    LET first == (k - 1) * subsection_size + 1
        last  == Min(k * subsection_size, Len(sentences))
        kept  == Ascending({i \in first..last : strip(sentences[i]) # << >>})
    IN  join(<<".", " ">>, [n \in DOMAIN kept |-> strip(sentences[kept[n]])])

\* a variant of long_enough that keeps every passage that is not empty
long_enough_nonempty(text) == Len(text) > 0

\* if len(subsection_text) > 50
long_enough(text) == Len(text) > MinSubsectionLen

\* the passages of one item of the section, in text order
item_subsections(item, persona, job_description) ==
    LET sentences == split_sentences(item.text)
        groups    == (Len(sentences) + subsection_size - 1) \div subsection_size
        texts     == list([k \in 1..groups |-> subsection_text(sentences, k)])
        kept      == Ascending({k \in 1..groups : long_enough(texts[k])})
    IN  list([n \in DOMAIN kept |->
                [document        |-> item.document,
                 page_number     |-> item.page,
                 refined_text    |-> texts[kept[n]],
                 relevance_score |->
                     calculate_relevance_score(texts[kept[n]], persona,
                                               job_description)]])

\* subsections[:10]
top_subsections(subsections) == take(subsections, MaxSubsections)

extract_subsections(section, persona, job_description) ==
    LET subsections ==
            concat([i \in DOMAIN section.content |->
                       item_subsections(section.content[i], persona, job_description)])
    IN  top_subsections(sort_by_score(subsections))

----------------------------------------------------------------------------
(* Inputs: the texts, the files on disk and the configurations the model
   runs the program on *)

\* the texts of the 11 numbered headings of a.pdf
HeadingTexts ==
    << <<"1","."," ","R","e","v","e","n","u","e"," ","g","r","o","w","t","h"," ","a","n","d"," ","m",
          "a","r","k","e","t"," ","t","r","e","n","d"," ","a","n","a","l","y","s","i","s"," ",
          "f","o","r"," ","t","h","e"," ","y","e","a","r">>,
       <<"2","."," ","M","e","t","h","o","d","o","l","o","g","y"," ","a","n","d"," ","r","e","s","u",
          "l","t","s"," ","o","f"," ","t","h","e"," ","e","x","p","e","r","i","m","e","n","t",
          " ","i","n"," ","d","e","t","a","i","l"," ","h","e","r","e">>,
       <<"3","."," ","F","i","n","a","n","c","i","a","l"," ","p","e","r","f","o","r","m","a","n","c",
          "e"," ","a","n","d"," ","i","n","v","e","s","t","m","e","n","t"," ","r","i","s","k",
          " ","a","c","r","o","s","s"," ","m","a","r","k","e","t","s">>,
       <<"4","."," ","T","h","e"," ","w","e","a","t","h","e","r"," ","w","a","s"," ","s","u","n","n",
          "y"," ","a","n","d"," ","t","h","e"," ","c","a","t"," ","s","l","e","p","t"," ","o",
          "n"," ","t","h","e"," ","w","a","r","m"," ","r","o","o","f">>,
       <<"5","."," ","T","h","e"," ","w","e","a","t","h","e","r"," ","w","a","s"," ","r","a","i","n",
          "y"," ","a","n","d"," ","t","h","e"," ","d","o","g"," ","s","l","e","p","t"," ","o",
          "n"," ","t","h","e"," ","c","o","l","d"," ","f","l","o","o","r">>,
       <<"6","."," ","R","e","s","e","a","r","c","h"," ","d","a","t","a"," ","a","n","d"," ","f","i",
          "n","d","i","n","g","s"," ","f","r","o","m"," ","t","h","e"," ","l","i","t","e","r",
          "a","t","u","r","e"," ","o","n"," ","g","r","o","w","t","h">>,
       <<"7","."," ","S","t","r","a","t","e","g","y"," ","a","n","d"," ","p","l","a","n","n","i","n",
          "g"," ","f","o","r"," ","t","h","e"," ","t","e","a","m"," ","a","n","d"," ","t","h",
          "e"," ","p","r","o","j","e","c","t"," ","g","o","a","l","s">>,
       <<"8","."," ","M","a","r","k","e","t"," ","r","e","s","e","a","r","c","h"," ","s","u","m","m",
          "a","r","y"," ","w","i","t","h"," ","r","e","v","e","n","u","e"," ","a","n","d"," ",
          "p","r","o","f","i","t"," ","a","n","a","l","y","s","i","s">>,
       <<"9","."," ","A","n"," ","o","v","e","r","v","i","e","w"," ","o","f"," ","b","a","s","i","c",
          " ","c","o","n","c","e","p","t","s"," ","w","i","t","h"," ","a"," ","w","o","r","k",
          "e","d"," ","e","x","a","m","p","l","e"," ","h","e","r","e">>,
       <<"1","0","."," ","D","i","s","c","u","s","s","i","o","n"," ","o","f"," ","r","e","s","u","l",
          "t","s","."," ","C","o","n","c","l","u","s","i","o","n"," ","o","f"," ","s","t","u",
          "d","y","."," ","R","e","f","e","r","e","n","c","e","s">>,
       <<"1","1","."," ","T","h","e"," ","r","i","v","e","r"," ","r","u","n","s"," ","d","o","w","n",
          " ","t","o"," ","t","h","e"," ","s","e","a"," ","a","n","d"," ","t","h","e"," ","b",
          "o","a","t","s"," ","s","a","i","l"," ","a","w","a","y">> >>

\* 'The methodology section describes our experimental results and findings.'
ProseText ==
    <<"T","h","e"," ","m","e","t","h","o","d","o","l","o","g","y"," ","s","e","c","t","i","o",
      "n"," ","d","e","s","c","r","i","b","e","s"," ","o","u","r"," ","e","x","p","e","r","i",
      "m","e","n","t","a","l"," ","r","e","s","u","l","t","s"," ","a","n","d"," ","f","i","n",
      "d","i","n","g","s",".">>

\* 'See Fig. 2'
FigureText ==
    <<"S","e","e"," ","F","i","g","."," ","2">>

\* 'Introduction to the methodology and the results of the market study'
IntroText ==
    <<"I","n","t","r","o","d","u","c","t","i","o","n"," ","t","o"," ","t","h","e"," ","m","e",
      "t","h","o","d","o","l","o","g","y"," ","a","n","d"," ","t","h","e"," ","r","e","s","u",
      "l","t","s"," ","o","f"," ","t","h","e"," ","m","a","r","k","e","t"," ","s","t","u","d",
      "y">>

\* 'Revenue grew in every market. Profit fell! Was the strategy wrong? The analysis says no. Risk is low.'
FiveSentenceText ==
    <<"R","e","v","e","n","u","e"," ","g","r","e","w"," ","i","n"," ","e","v","e","r","y"," ",
      "m","a","r","k","e","t","."," ","P","r","o","f","i","t"," ","f","e","l","l","!"," ","W",
      "a","s"," ","t","h","e"," ","s","t","r","a","t","e","g","y"," ","w","r","o","n","g","?",
      " ","T","h","e"," ","a","n","a","l","y","s","i","s"," ","s","a","y","s"," ","n","o",".",
      " ","R","i","s","k"," ","i","s"," ","l","o","w",".">>

\* ' Chapter 2 covers the financial trend and the return on every investment '
ChapterText ==
    <<" ","C","h","a","p","t","e","r"," ","2"," ","c","o","v","e","r","s"," ","t","h","e"," ",
      "f","i","n","a","n","c","i","a","l"," ","t","r","e","n","d"," ","a","n","d"," ","t","h",
      "e"," ","r","e","t","u","r","n"," ","o","n"," ","e","v","e","r","y"," ","i","n","v","e",
      "s","t","m","e","n","t"," ">>

\* '  \n '
BlankText ==
    <<" "," ","\n"," ">>

\* 'RESULTS'
ResultsText ==
    <<"R","E","S","U","L","T","S">>

\* '2. Market Analysis'
NumberedText ==
    <<"2","."," ","M","a","r","k","e","t"," ","A","n","a","l","y","s","i","s">>

\* 'research market abstract introduction methodology results discussion conclusion references literature review executive summary financial revenue profit market strategy competitive analysis'
RichText ==
    <<"r","e","s","e","a","r","c","h"," ","m","a","r","k","e","t"," ","a","b","s","t","r","a",
      "c","t"," ","i","n","t","r","o","d","u","c","t","i","o","n"," ","m","e","t","h","o","d",
      "o","l","o","g","y"," ","r","e","s","u","l","t","s"," ","d","i","s","c","u","s","s","i",
      "o","n"," ","c","o","n","c","l","u","s","i","o","n"," ","r","e","f","e","r","e","n","c",
      "e","s"," ","l","i","t","e","r","a","t","u","r","e"," ","r","e","v","i","e","w"," ","e",
      "x","e","c","u","t","i","v","e"," ","s","u","m","m","a","r","y"," ","f","i","n","a","n",
      "c","i","a","l"," ","r","e","v","e","n","u","e"," ","p","r","o","f","i","t"," ","m","a",
      "r","k","e","t"," ","s","t","r","a","t","e","g","y"," ","c","o","m","p","e","t","i","t",
      "i","v","e"," ","a","n","a","l","y","s","i","s">>

\* the three sentences the long paragraph is made of
LongSentences ==
    << <<"R","e","v","e","n","u","e"," ","r","o","s","e"," ","f","a","s","t","."," ">>,
       <<"T","h","e"," ","c","a","t"," ","s","a","t"," ","d","o","w","n","."," ">>,
       <<"D","a","t","a"," ","o","n"," ","t","h","e"," ","m","a","r","k","e","t","."," ">> >>

\* ''
NoPersona ==
    << >>

\* 'PhD Researcher in Computational Biology'
Researcher ==
    <<"P","h","D"," ","R","e","s","e","a","r","c","h","e","r"," ","i","n"," ","C","o","m","p",
      "u","t","a","t","i","o","n","a","l"," ","B","i","o","l","o","g","y">>

\* 'Investment Analyst'
Analyst ==
    <<"I","n","v","e","s","t","m","e","n","t"," ","A","n","a","l","y","s","t">>

\* ''
NoJob ==
    << >>

\* 'Prepare a literature review on methodology'
ReviewJob ==
    <<"P","r","e","p","a","r","e"," ","a"," ","l","i","t","e","r","a","t","u","r","e"," ","r",
      "e","v","i","e","w"," ","o","n"," ","m","e","t","h","o","d","o","l","o","g","y">>

\* 'research market'
MarketJob ==
    <<"r","e","s","e","a","r","c","h"," ","m","a","r","k","e","t">>

\* The long paragraph: LongGroups groups of subsection_size equal sentences,
\* the sentence changing from group to group.
LongGroups == 12
LongText ==
    concat([n \in 1..(LongGroups * subsection_size) |->
               LongSentences[(((n - 1) \div subsection_size) % Len(LongSentences)) + 1]])

\* The files of the collection's PDFs directory: whether the path exists,
\* whether fitz can open it, and the paragraphs of its pages.
DocNames == {"a.pdf", "b.pdf", "missing.pdf", "corrupt.pdf"}
disk(name) ==
    CASE name = "a.pdf" ->
           [exists |-> TRUE, opens |-> TRUE,
            pages |-> << SubSeq(HeadingTexts, 1, 6),
                         SubSeq(HeadingTexts, 7, Len(HeadingTexts)) >>]
      [] name = "b.pdf" ->
           [exists |-> TRUE, opens |-> TRUE,
            pages |-> << <<BlankText, ProseText, FigureText, IntroText, LongText>>,
                         <<FiveSentenceText, ChapterText>> >>]
      [] name = "corrupt.pdf" ->
           [exists |-> TRUE, opens |-> FALSE, pages |-> << >>]
      [] OTHER ->
           [exists |-> FALSE, opens |-> FALSE, pages |-> << >>]

\* A value of the configuration: a JSON string or a JSON object
JStr(s) == [type |-> "str", value |-> s]
JObj == [type |-> "object", value |-> << >>]

\* the persona and job description pairs of the configurations
Contexts ==
    { [persona |-> JStr(NoPersona),  job_to_be_done |-> JStr(NoJob)],
      [persona |-> JStr(Researcher), job_to_be_done |-> JStr(ReviewJob)],
      [persona |-> JStr(Analyst),    job_to_be_done |-> JStr(MarketJob)],
      [persona |-> JObj,             job_to_be_done |-> JStr(MarketJob)] }

\* the entries a configuration's document list is made of
DocEntries == {JStr(n) : n \in DocNames} \cup {JObj}

\* the longest document list of a configuration
MaxDocs == 2
DocLists == UNION {[1..n -> DocEntries] : n \in 0..MaxDocs}

\* The configuration file: unreadable, not JSON, lacking a field, or complete
Configs ==
    { [status |-> s, persona |-> JStr(NoPersona), job_to_be_done |-> JStr(NoJob),
       documents |-> << >>] : s \in {"unreadable", "malformed", "missing_field"} }
    \cup
    { [status |-> "ok", persona |-> c.persona, job_to_be_done |-> c.job_to_be_done,
       documents |-> d] : c \in Contexts, d \in DocLists }

\* The text blocks the functions are applied to on their own: any list of
\* blocks, a block of 50 characters or fewer included
Blocks ==
    << [document |-> "a.pdf", page |-> 1, text |-> FigureText],
       [document |-> "a.pdf", page |-> 1, text |-> ResultsText],
       [document |-> "a.pdf", page |-> 2, text |-> NumberedText],
       [document |-> "b.pdf", page |-> 1, text |-> ProseText],
       [document |-> "b.pdf", page |-> 1, text |-> FiveSentenceText],
       [document |-> "b.pdf", page |-> 2, text |-> LongText] >>

\* The lists of blocks: every list of up to MaxBlocks of the short blocks,
\* and two lists with the long paragraph
MaxBlocks == 3
ShortBlocks == {k \in DOMAIN Blocks : Len(Blocks[k].text) < HeaderMaxLen}
BlockChoices ==
    UNION {[1..n -> ShortBlocks] : n \in 0..MaxBlocks} \cup {<<6>>, <<2, 6, 5>>}

\* the list of items of a choice of blocks, numbered in list order
items_of(choice) ==
    [k \in DOMAIN choice |->
        [document   |-> Blocks[choice[k]].document,
         page       |-> Blocks[choice[k]].page,
         section_id |-> <<Blocks[choice[k]].page, k - 1>>,
         text       |-> Blocks[choice[k]].text,
         word_count |-> word_count(Blocks[choice[k]].text)]]

\* the texts calculate_relevance_score is applied to on its own
ScoreTexts == {<< >>, FigureText, ProseText, RichText, LongText, HeadingTexts[8]}

\* the persona and job description strings it is applied with
StringContexts == {c \in Contexts : c.persona.type = "str" /\ c.job_to_be_done.type = "str"}

----------------------------------------------------------------------------
(* State *)

VARIABLES
    pc,                    \* the position in process_document_collection,
                           \* or the function applied on its own
    config,                \* the content of the input file
    persona,               \* config['persona']
    job_description,       \* config['job_to_be_done']
    documents,             \* config['documents']
    doc_index,             \* the position of the loop over documents
    all_document_data,     \* the items extracted so far
    all_sections,          \* the sections as identify_sections returned them
    ranked_sections,       \* the sections as rank_sections returned them
    top_sections,          \* ranked_sections[:20]
    section_index,         \* the position of the loop over top_sections
    extracted_sections,
    sub_section_analysis,
    result,                \* what the call returned: << >> until it returns
    fn_text,               \* the text calculate_relevance_score is applied to
    fn_score,              \* the score it returned
    fn_section,            \* the section extract_subsections is applied to
    fn_subsections         \* the passages it returned

vars == <<pc, config, persona, job_description, documents, doc_index,
          all_document_data, all_sections, ranked_sections, top_sections,
          section_index, extracted_sections, sub_section_analysis, result,
          fn_text, fn_score, fn_section, fn_subsections>>

fn_vars == <<fn_text, fn_score, fn_section, fn_subsections>>

----------------------------------------------------------------------------
(* process_document_collection *)

\* a variant of path_exists that takes every listed document to exist
path_exists_always(name) == TRUE

\* doc_path.exists()
path_exists(name) == disk(name).exists

\* whether fitz.open(pdf_path) succeeds: not on a missing or damaged file
opens(name) == disk(name).exists /\ disk(name).opens

\* the exception fitz.open(pdf_path) raises when it does not succeed
open_error(name) ==
    IF disk(name).exists THEN "FileDataError" ELSE "FileNotFoundError"

\* a variant of catches for a handler of the configuration's errors alone
catches_config_errors(exception) ==
    exception \in {"FileNotFoundError", "JSONDecodeError", "KeyError"}

\* except Exception: every exception the body raises is one
catches(exception) == TRUE

\* the record the except clause returns; the timestamp is left out
error_record(exception) ==
    [metadata |-> [input_documents |-> << >>,
                   persona         |-> << >>,
                   job_to_be_done  |-> << >>,
                   error           |-> exception],
     extracted_sections   |-> << >>,
     sub_section_analysis |-> << >>]

\* the state after the body raised: the except clause returns its record, and
\* an exception it does not catch leaves the call
Raise(exception) ==
    IF catches(exception)
    THEN /\ pc' = "done"
         /\ result' = <<error_record(exception)>>
    ELSE /\ pc' = "raised"
         /\ result' = result

\* a variant of select_top that keeps every section
select_top_all(sections) == sections

\* ranked_sections[:20]
select_top(sections) == take(sections, TopSections)

\* a variant of wants_subsections that takes every section of the top 20
wants_subsections_top(section) == section.importance_rank <= TopSections

\* if section['importance_rank'] <= 10
wants_subsections(section) == section.importance_rank <= TopSubsectionRank

\* subsections[:3]
kept_subsections(subsections) == take(subsections, SubsectionsPerSection)

\* the entry of extracted_sections of a section
section_entry(section) ==
    [document        |-> section.document,
     page_number     |-> section.page,
     section_title   |-> section.section_title,
     importance_rank |-> section.importance_rank]

Init ==
    /\ pc = "read_config"
    /\ config \in Configs
    /\ persona = JStr(<< >>)
    /\ job_description = JStr(<< >>)
    /\ documents = << >>
    /\ doc_index = 1
    /\ all_document_data = << >>
    /\ all_sections = << >>
    /\ ranked_sections = << >>
    /\ top_sections = << >>
    /\ section_index = 1
    /\ extracted_sections = << >>
    /\ sub_section_analysis = << >>
    /\ result = << >>
    /\ fn_text = << >>
    /\ fn_score = 0
    /\ fn_section = 0
    /\ fn_subsections = << >>

\* open(input_file), json.load and the three fields of the configuration
ReadConfig ==
    /\ pc = "read_config"
    /\ IF config.status = "unreadable" THEN
            Raise("FileNotFoundError") /\ UNCHANGED <<persona, job_description, documents>>
       ELSE IF config.status = "malformed" THEN
            Raise("JSONDecodeError") /\ UNCHANGED <<persona, job_description, documents>>
       ELSE IF config.status = "missing_field" THEN
            Raise("KeyError") /\ UNCHANGED <<persona, job_description, documents>>
       ELSE /\ persona' = config.persona
            /\ job_description' = config.job_to_be_done
            /\ documents' = config.documents
            /\ pc' = "extract"
            /\ result' = result
    /\ UNCHANGED <<config, doc_index, all_document_data, all_sections, ranked_sections,
                   top_sections, section_index, extracted_sections,
                   sub_section_analysis, fn_vars>>

\* one turn of the loop over documents
ExtractDocument ==
    /\ pc = "extract"
    /\ doc_index <= Len(documents)
    /\ LET doc_name == documents[doc_index]
       IN  IF doc_name.type # "str" THEN
                \* collection_path / 'PDFs' / doc_name
                Raise("TypeError") /\ UNCHANGED <<doc_index, all_document_data>>
           ELSE IF path_exists(doc_name.value) THEN
                IF opens(doc_name.value) THEN
                     /\ all_document_data' = all_document_data \o
                            extract_document_text(doc_name.value, disk(doc_name.value).pages)
                     /\ doc_index' = doc_index + 1
                     /\ UNCHANGED <<pc, result>>
                ELSE Raise(open_error(doc_name.value)) /\ UNCHANGED <<doc_index, all_document_data>>
           ELSE \* logger.warning: the document is skipped
                /\ doc_index' = doc_index + 1
                /\ UNCHANGED <<pc, result, all_document_data>>
    /\ UNCHANGED <<config, persona, job_description, documents, all_sections,
                   ranked_sections, top_sections, section_index, extracted_sections,
                   sub_section_analysis, fn_vars>>

\* all_sections = self.identify_sections(all_document_data)
IdentifySections ==
    /\ pc = "extract"
    /\ doc_index > Len(documents)
    /\ all_sections' = identify_sections(all_document_data)
    /\ pc' = "rank"
    /\ UNCHANGED <<config, persona, job_description, documents, doc_index,
                   all_document_data, ranked_sections, top_sections, section_index,
                   extracted_sections, sub_section_analysis, result, fn_vars>>

\* whether calculate_relevance_score raises: persona.lower() and
\* job_description.lower() are methods of strings only
score_raises(p, j) == p.type # "str" \/ j.type # "str"

\* ranked_sections = self.rank_sections(...); top_sections = ranked_sections[:20]
RankSections ==
    /\ pc = "rank"
    /\ IF all_sections # << >> /\ score_raises(persona, job_description) THEN
            /\ Raise("AttributeError")
            /\ UNCHANGED <<ranked_sections, top_sections>>
       ELSE /\ ranked_sections' =
                   rank_sections(all_sections, persona.value, job_description.value)
            /\ top_sections' = select_top(ranked_sections')
            /\ pc' = "emit"
            /\ result' = result
    /\ UNCHANGED <<config, persona, job_description, documents, doc_index,
                   all_document_data, all_sections, section_index, extracted_sections,
                   sub_section_analysis, fn_vars>>

\* one turn of the loop over top_sections
EmitSection ==
    /\ pc = "emit"
    /\ section_index <= Len(top_sections)
    /\ LET section == top_sections[section_index]
       IN  /\ extracted_sections' = Append(extracted_sections, section_entry(section))
           /\ sub_section_analysis' =
                  IF wants_subsections(section)
                  THEN sub_section_analysis \o
                       kept_subsections(extract_subsections(section, persona.value,
                                                            job_description.value))
                  ELSE sub_section_analysis
    /\ section_index' = section_index + 1
    /\ UNCHANGED <<pc, config, persona, job_description, documents, doc_index,
                   all_document_data, all_sections, ranked_sections, top_sections,
                   result, fn_vars>>

\* output = {...}; return output
ReturnOutput ==
    /\ pc = "emit"
    /\ section_index > Len(top_sections)
    /\ result' = << [metadata |-> [input_documents |-> documents,
                                   persona         |-> persona,
                                   job_to_be_done  |-> job_description],
                     extracted_sections   |-> extracted_sections,
                     sub_section_analysis |-> sub_section_analysis] >>
    /\ pc' = "done"
    /\ UNCHANGED <<config, persona, job_description, documents, doc_index,
                   all_document_data, all_sections, ranked_sections, top_sections,
                   section_index, extracted_sections, sub_section_analysis, fn_vars>>

Next ==
    \/ ReadConfig
    \/ ExtractDocument
    \/ IdentifySections
    \/ RankSections
    \/ EmitSection
    \/ ReturnOutput

Spec == Init /\ [][Next]_vars

----------------------------------------------------------------------------
(* The functions applied on their own, to any list of blocks and any text *)

FnInit ==
    /\ \E c \in StringContexts :
          /\ persona = c.persona
          /\ job_description = c.job_to_be_done
          /\ config = [status |-> "ok", persona |-> c.persona,
                       job_to_be_done |-> c.job_to_be_done, documents |-> << >>]
    /\ documents = << >>
    /\ doc_index = 1
    /\ all_sections = << >>
    /\ ranked_sections = << >>
    /\ top_sections = << >>
    /\ section_index = 1
    /\ extracted_sections = << >>
    /\ sub_section_analysis = << >>
    /\ result = << >>
    /\ fn_score = 0
    /\ fn_section = 0
    /\ fn_subsections = << >>
    /\ \/ /\ pc = "fn_identify"
          /\ \E choice \in BlockChoices : all_document_data = items_of(choice)
          /\ fn_text = << >>
       \/ /\ pc = "fn_score"
          /\ all_document_data = << >>
          /\ fn_text \in ScoreTexts

\* identify_sections(document_data)
FnIdentify ==
    /\ pc = "fn_identify"
    /\ all_sections' = identify_sections(all_document_data)
    /\ pc' = "fn_rank"
    /\ UNCHANGED <<config, persona, job_description, documents, doc_index,
                   all_document_data, ranked_sections, top_sections, section_index,
                   extracted_sections, sub_section_analysis, result, fn_vars>>

\* rank_sections(sections, persona, job_description)
FnRank ==
    /\ pc = "fn_rank"
    /\ ranked_sections' = rank_sections(all_sections, persona.value, job_description.value)
    /\ pc' = "fn_extract"
    /\ UNCHANGED <<config, persona, job_description, documents, doc_index,
                   all_document_data, all_sections, top_sections, section_index,
                   extracted_sections, sub_section_analysis, result, fn_vars>>

\* extract_subsections(section, persona, job_description), for any section
FnExtract ==
    /\ pc = "fn_extract"
    /\ \E k \in DOMAIN ranked_sections :
          /\ fn_section' = k
          /\ fn_subsections' = extract_subsections(ranked_sections[k], persona.value,
                                                   job_description.value)
    /\ pc' = "fn_done"
    /\ UNCHANGED <<config, persona, job_description, documents, doc_index,
                   all_document_data, all_sections, ranked_sections, top_sections,
                   section_index, extracted_sections, sub_section_analysis, result,
                   fn_text, fn_score>>

\* calculate_relevance_score(text, persona, job_description), for any text
FnScore ==
    /\ pc = "fn_score"
    /\ fn_score' = calculate_relevance_score(fn_text, persona.value, job_description.value)
    /\ pc' = "fn_scored"
    /\ UNCHANGED <<config, persona, job_description, documents, doc_index,
                   all_document_data, all_sections, ranked_sections, top_sections,
                   section_index, extracted_sections, sub_section_analysis, result,
                   fn_text, fn_section, fn_subsections>>

FnNext ==
    \/ FnIdentify
    \/ FnRank
    \/ FnExtract
    \/ FnScore

SpecFn == FnInit /\ [][FnNext]_vars

----------------------------------------------------------------------------
(* Properties *)

\* identify_sections has returned
Identified == pc \in {"fn_rank", "fn_extract", "fn_done"}

\* rank_sections has returned
Ranked == pc \in {"fn_extract", "fn_done"}

\* the content lists of a list of sections, one after the other
contents(sections) == concat([s \in DOMAIN sections |-> sections[s].content])

\* the positions in document_data of the first block of each section
section_starts ==
    {Len(contents(SubSeq(all_sections, 1, s - 1))) + 1 : s \in DOMAIN all_sections}

\* the position in ranked_sections of the section at position i of the list
\* rank_sections was given
ranked_position(i) ==
    CHOOSE k \in DOMAIN ranked_sections :
        ranked_sections[k].content = all_sections[i].content

\* a section without the two fields rank_sections assigns
unranked(section) ==
    [document      |-> section.document,
     page          |-> section.page,
     section_title |-> section.section_title,
     content       |-> section.content]

\* how many times each element occurs in a sequence
occurrences(seq) ==
    [x \in {seq[i] : i \in DOMAIN seq} |-> Cardinality({i \in DOMAIN seq : seq[i] = x})]

\* the relevance scores of a sequence do not increase
non_increasing(seq) ==
    \A i \in 1..(Len(seq) - 1) : seq[i].relevance_score >= seq[i + 1].relevance_score

\* C1: the sections identify_sections returns partition its input: their
\* content lists, one after the other in the order returned, are the input
\* list, and no section has an empty content list.
C1_SectionsPartitionInput ==
    Identified =>
        /\ contents(all_sections) = all_document_data
        /\ \A s \in DOMAIN all_sections : all_sections[s].content # << >>

\* C1 on an input of several sections, one of them of several blocks
C1_Witness ==
    /\ Identified
    /\ Len(all_sections) >= 2
    /\ \E s \in DOMAIN all_sections : Len(all_sections[s].content) >= 2

\* C2: calculate_relevance_score returns a value from 0 to 100, for the empty
\* text, persona and job description too, and when the sum of the factors is
\* over 100.  It holds of the score of a text on its own, of every ranked
\* section and of every passage.
C2_ScoreWithinBounds ==
    /\ pc = "fn_scored" => fn_score >= 0 /\ fn_score <= ScoreCap * Scale
    /\ \A i \in DOMAIN ranked_sections :
          /\ ranked_sections[i].relevance_score >= 0
          /\ ranked_sections[i].relevance_score <= ScoreCap * Scale
    /\ \A i \in DOMAIN fn_subsections :
          /\ fn_subsections[i].relevance_score >= 0
          /\ fn_subsections[i].relevance_score <= ScoreCap * Scale

\* C2 on a text whose factors sum to more than 100
C2_Witness ==
    /\ pc = "fn_scored"
    /\ raw_score(fn_text, persona.value, job_description.value) > ScoreCap * Scale
    /\ fn_score = ScoreCap * Scale

\* C3: after rank_sections on N sections the section at position i has
\* importance_rank i, so the ranks are 1..N without tie or gap; the scores do
\* not increase along the list; and the sections are those it was given.
C3_RanksArePermutation ==
    Ranked =>
        /\ Len(ranked_sections) = Len(all_sections)
        /\ \A i \in DOMAIN ranked_sections : ranked_sections[i].importance_rank = i
        /\ {ranked_sections[i].importance_rank : i \in DOMAIN ranked_sections}
               = 1..Len(all_sections)
        /\ non_increasing(ranked_sections)
        /\ occurrences([i \in DOMAIN ranked_sections |-> unranked(ranked_sections[i])])
               = occurrences([i \in DOMAIN all_sections |-> unranked(all_sections[i])])

\* C3 on three sections or more that the sort has reordered
C3_Witness ==
    /\ Ranked
    /\ Len(ranked_sections) >= 3
    /\ \E i \in DOMAIN ranked_sections :
          ranked_sections[i].content # all_sections[i].content

\* C4: of two sections of equal relevance score, the one that was earlier in
\* the list given to rank_sections has the lower importance_rank.
C4_StableRanking ==
    Ranked =>
        \A i, j \in DOMAIN all_sections :
            (/\ i < j
             /\ ranked_sections[ranked_position(i)].relevance_score
                    = ranked_sections[ranked_position(j)].relevance_score)
            => ranked_sections[ranked_position(i)].importance_rank
                   < ranked_sections[ranked_position(j)].importance_rank

\* C4 on two sections of equal score with a later section of a higher score,
\* which the descending sort moves ahead of both
C4_Witness ==
    /\ Ranked
    /\ \E i, j, h \in DOMAIN all_sections :
          /\ i < j
          /\ j < h
          /\ ranked_sections[ranked_position(i)].relevance_score
                 = ranked_sections[ranked_position(j)].relevance_score
          /\ ranked_sections[ranked_position(h)].relevance_score
                 > ranked_sections[ranked_position(i)].relevance_score
          /\ ranked_position(h) < ranked_position(i)

\* C5: extract_subsections returns at most 10 passages and no passage whose
\* text is under 50 characters long.
C5_SubsectionsBounded ==
    pc = "fn_done" =>
        /\ Len(fn_subsections) <= 10
        /\ \A k \in DOMAIN fn_subsections : Len(fn_subsections[k].refined_text) >= 50

\* C5 on a section with more than 10 passages of over 50 characters and a
\* group of sentences whose text is shorter
C5_Witness ==
    /\ pc = "fn_done"
    /\ Len(fn_subsections) = 10
    /\ LET content == ranked_sections[fn_section].content
       IN  /\ Len(concat([i \in DOMAIN content |->
                     item_subsections(content[i], persona.value,
                                      job_description.value)])) > 10
           /\ \E i \in DOMAIN content :
                 LET sentences == split_sentences(content[i].text)
                 IN  \E k \in 1..Len(sentences) :
                        /\ (k - 1) * subsection_size < Len(sentences)
                        /\ Len(subsection_text(sentences, k)) > 0
                        /\ Len(subsection_text(sentences, k)) < 50

\* the call has returned a record
Returned == pc = "done" /\ Len(result) = 1

\* the record the call returned has an error field
HasError == "error" \in DOMAIN result[1].metadata

\* C6: extracted_sections has at most 20 entries; when N sections were ranked
\* it holds the entries of the sections ranked 1..min(N, 20), in that order.
C6_TopTwentySections ==
    Returned =>
        /\ Len(result[1].extracted_sections) <= 20
        /\ ~HasError =>
              /\ Len(result[1].extracted_sections) = Min(Len(ranked_sections), 20)
              /\ \A i \in DOMAIN result[1].extracted_sections :
                    /\ result[1].extracted_sections[i] = section_entry(ranked_sections[i])
                    /\ result[1].extracted_sections[i].importance_rank = i

\* C6 on a collection of more than 20 sections
C6_Witness ==
    /\ Returned
    /\ ~HasError
    /\ Len(ranked_sections) > 20
    /\ Len(result[1].extracted_sections) = 20

\* the passages of the section ranked r, the best first
passages_of_rank(r) ==
    extract_subsections(ranked_sections[r], persona.value, job_description.value)

\* C7: sub_section_analysis is made of one group of passages for each section
\* ranked 1..10, the groups in rank order; a group is the first 3 passages of
\* its section at most, in non-increasing order of relevance score.  No
\* passage comes from a section ranked after 10.
C7_SubsectionsOfTopTen ==
    (Returned /\ ~HasError) =>
        LET groups == list([r \in 1..Min(Len(ranked_sections), 10) |->
                               take(passages_of_rank(r), 3)])
        IN  /\ result[1].sub_section_analysis = concat(groups)
            /\ \A r \in DOMAIN groups :
                  /\ Len(groups[r]) <= 3
                  /\ non_increasing(groups[r])

\* C7 on a collection with a section ranked 11 that has passages and a section
\* of the top 10 that has more than 3
C7_Witness ==
    /\ Returned
    /\ ~HasError
    /\ Len(ranked_sections) > 10
    /\ passages_of_rank(11) # << >>
    /\ \E r \in 1..10 : Len(passages_of_rank(r)) > 3

\* the configuration cannot be read, is not JSON or lacks a field
config_fails == config.status # "ok"

\* a listed document is not a string, or exists and cannot be opened
document_fails ==
    \E k \in DOMAIN config.documents :
        \/ config.documents[k].type # "str"
        \/ /\ disk(config.documents[k].value).exists
           /\ ~disk(config.documents[k].value).opens

\* there is a section to score and the persona or the job is not a string
ranking_fails ==
    /\ score_raises(config.persona, config.job_to_be_done)
    /\ \E k \in DOMAIN config.documents :
          /\ config.documents[k].type = "str"
          /\ disk(config.documents[k].value).exists
          /\ extract_document_text(config.documents[k].value,
                                   disk(config.documents[k].value).pages) # << >>

\* a step of the call fails
Fails == config_fails \/ document_fails \/ ranking_fails

\* C8: process_document_collection never raises.  When a step fails it
\* returns a record with an error field and with extracted_sections and
\* sub_section_analysis empty; it returns an error field in no other case.
C8_FailureIsContained ==
    /\ pc # "raised"
    /\ pc = "done" =>
          /\ Len(result) = 1
          /\ HasError <=> Fails
          /\ HasError =>
                /\ result[1].extracted_sections = << >>
                /\ result[1].sub_section_analysis = << >>

\* C8 on a failure during ranking, when the sections were already built
C8_Witness ==
    /\ Returned
    /\ HasError
    /\ result[1].metadata.error = "AttributeError"
    /\ all_sections # << >>

\* the positions of the listed documents that name a path that does not exist
missing_documents ==
    {k \in DOMAIN config.documents :
        /\ config.documents[k].type = "str"
        /\ ~disk(config.documents[k].value).exists}

\* the items of the listed documents that exist, in list order
items_of_existing ==
    LET existing == Ascending(DOMAIN config.documents \ missing_documents)
    IN  concat([n \in DOMAIN existing |->
                   extract_document_text(config.documents[existing[n]].value,
                                         disk(config.documents[existing[n]].value).pages)])

\* C9: a listed document that does not exist is skipped.  Unless a step
\* fails, the items are those of the documents that exist, the record has no
\* error field and input_documents is the requested list; when no listed
\* document exists both lists of the record are empty.
C9_MissingDocumentSkipped ==
    Returned =>
        /\ ~Fails =>
              /\ ~HasError
              /\ result[1].metadata.input_documents = config.documents
              /\ all_document_data = items_of_existing
        /\ (config.status = "ok" /\ missing_documents = DOMAIN config.documents) =>
              /\ ~HasError
              /\ result[1].metadata.input_documents = config.documents
              /\ result[1].extracted_sections = << >>
              /\ result[1].sub_section_analysis = << >>

\* C9 on a list with a missing document followed by one that exists
C9_Witness ==
    /\ Returned
    /\ ~HasError
    /\ \E k \in missing_documents : k < Len(config.documents)
    /\ result[1].extracted_sections # << >>
    /\ result[1].metadata.input_documents = config.documents

\* C10: a block is the first block of its section exactly when it is a header
\* candidate or the first block of the input.  So no block after the first of
\* a section is a header candidate, and every section but the first is titled
\* from its header.
C10_SectionStartsAtHeader ==
    Identified =>
        /\ \A k \in DOMAIN all_document_data :
              k \in section_starts
                  <=> (is_section_header(all_document_data[k].text) \/ k = 1)
        /\ \A s \in DOMAIN all_sections :
              /\ \A p \in 2..Len(all_sections[s].content) :
                    ~is_section_header(all_sections[s].content[p].text)
              /\ s > 1 =>
                    /\ is_section_header(all_sections[s].content[1].text)
                    /\ all_sections[s].section_title
                           = header_title(all_sections[s].content[1].text)

\* C10 on an input whose first section is a fallback section that holds two
\* blocks of different documents or pages
C10_Witness ==
    /\ Identified
    /\ Len(all_sections) >= 2
    /\ ~is_section_header(all_sections[1].content[1].text)
    /\ all_sections[1].section_title = fallback_title(all_sections[1].page)
    /\ \E p \in 1..(Len(all_sections[1].content) - 1) :
          \/ all_sections[1].content[p].document # all_sections[1].content[p + 1].document
          \/ all_sections[1].content[p].page # all_sections[1].content[p + 1].page

============================================================================
